---- MODULE Spec2Model ----
(***************************************************************************)
(* mesh-rand: area-uniform and Poisson-disk sampling on a triangle mesh.   *)
(*                                                                         *)
(* The model follows src/src/surface/poisson_disk.rs (TriMeshGraph,        *)
(* PoissonDiskSurface), src/src/surface/uniform.rs (UniformSurface),       *)
(* src/src/surface/mod.rs (Triangle, vert_ids_to_pos) and                  *)
(* src/src/vecmath.rs.                                                     *)
(*                                                                         *)
(* Arithmetic.  f32 values are modelled as exact integers: the coordinates *)
(* of the input meshes are multiples of a power of two large enough that   *)
(* every midpoint and every sampled position the runs compute is an        *)
(* integer again, so midpoint's division by 2 and the sampler's products   *)
(* are exact, as they are in f32 for such values.  Square roots are never  *)
(* taken: the code compares squared lengths, and a triangle's area and     *)
(* normal are kept as the cross product they are computed from.            *)
(*                                                                         *)
(* Indices.  Vertex and face indices are the code's 0-based usize values;  *)
(* a Vec is a TLA+ sequence, so element i of the code is element i+1 here. *)
(***************************************************************************)
EXTENDS Integers, Sequences, FiniteSets, TLC

(***************************************************************************)
(* Bounds of the model.                                                    *)
(***************************************************************************)
\* largest retries argument of sample_naive that is explored
MaxRetries == 2
\* largest max argument of sample_naive that is explored
MaxSamples == 2
\* largest number of calls of sample_naive on one sampler that is explored
MaxRuns == 2
\* ceiling of the search for the integer square root of (2 * area)^2
MaxRoot == 2048

(***************************************************************************)
(* vecmath.rs                                                              *)
(***************************************************************************)
len_sq(a) == a[1] * a[1] + a[2] * a[2] + a[3] * a[3]

diff(v, u) == <<v[1] - u[1], v[2] - u[2], v[3] - u[3]>>

add(u, v) == <<u[1] + v[1], u[2] + v[2], u[3] + v[3]>>

cross(a, b) ==
    <<a[2] * b[3] - a[3] * b[2], a[3] * b[1] - a[1] * b[3], a[1] * b[2] - a[2] * b[1]>>

dist_sq(p1, p2) == len_sq(diff(p1, p2))

\* midpoint without the division by 2.0
midpointNotHalved(pl, pr) == add(pl, pr)

\* midpoint with only pr divided by 2.0
midpointHalvesOne(pl, pr) ==
    <<pl[1] + pr[1] \div 2, pl[2] + pr[2] \div 2, pl[3] + pr[3] \div 2>>

\* div(add(pl, pr), 2.0)
midpoint(pl, pr) ==
    <<(pl[1] + pr[1]) \div 2, (pl[2] + pr[2]) \div 2, (pl[3] + pr[3]) \div 2>>

(***************************************************************************)
(* Helpers on sequences and on the HashMap<[usize; 2], Vec<usize>>.        *)
(***************************************************************************)
\* [a, b].sort()
SortPair(a, b) == IF a <= b THEN <<a, b>> ELSE <<b, a>>

\* the elements of a Vec, as a set
Range(s) == {s[n] : n \in 1..Len(s)}

\* HashMap::insert
MapInsert(map, key, val) ==
    [k \in (DOMAIN map) \cup {key} |-> IF k = key THEN val ELSE map[k]]

\* HashMap::remove
MapRemove(map, key) == [k \in (DOMAIN map) \ {key} |-> map[k]]

\* HashMap::entry(key).or_default()
MapEntryOrDefault(map, key) == IF key \in DOMAIN map THEN map ELSE MapInsert(map, key, <<>>)

\* every order in which the elements of a finite set can be enumerated
RECURSIVE Orderings(_)
Orderings(S) ==
    IF S = {} THEN {<<>>}
    ELSE UNION {{<<x>> \o rest : rest \in Orderings(S \ {x})} : x \in S}

(***************************************************************************)
(* surface/mod.rs: Triangle, vert_ids_to_pos                               *)
(***************************************************************************)
\* vert_ids_to_pos returns Ok: verts.get(i) is Some for the three indices
VertIdsInRange(face, vs) ==
    /\ face[1] < Len(vs)
    /\ face[2] < Len(vs)
    /\ face[3] < Len(vs)

\* the three positions vert_ids_to_pos returns
vert_ids_to_pos(face, vs) == <<vs[face[1] + 1], vs[face[2] + 1], vs[face[3] + 1]>>

\* Triangle::from_points returns Ok: f32::is_normal(area), with area = len(cross(u, v)) / 2.
\* On exact values the area is normal exactly when the cross product is not the zero vector.
AreaIsNormal(p1, p2, p3) == len_sq(cross(diff(p2, p1), diff(p3, p1))) # 0

\* The Triangle that from_points builds.  normal_dir is cross(u, v): the code's normal is
\* normal_dir / len and its area is len / 2, with len = sqrt(len_sq(normal_dir)).
from_points(p1, p2, p3) ==
    [points |-> <<p1, p2, p3>>,
     origin |-> p1,
     u |-> diff(p2, p1),
     v |-> diff(p3, p1),
     normal_dir |-> cross(diff(p2, p1), diff(p3, p1))]

\* the three assertions of Triangle::intersects_sphere
EdgeAssertionsHold(tri, rad) ==
    /\ dist_sq(tri.points[1], tri.points[2]) <= rad * rad
    /\ dist_sq(tri.points[2], tri.points[3]) <= rad * rad
    /\ dist_sq(tri.points[3], tri.points[1]) <= rad * rad

\* the value Triangle::intersects_sphere returns when its assertions hold
intersects_sphere(tri, position, rad) ==
    \E n \in 1..3 : dist_sq(position, tri.points[n]) <= rad * rad

(***************************************************************************)
(* surface/poisson_disk.rs: TriMeshGraph                                   *)
(***************************************************************************)
\* HashMap::new()
EmptyMap == [k \in {} |-> <<>>]

\* edge_connections.entry(pair).or_default().push(t_ind)
PushConnection(map, pair, t_ind) ==
    LET m1 == MapEntryOrDefault(map, pair)
    IN  MapInsert(m1, pair, Append(m1[pair], t_ind))

\* the loop of TriMeshGraph::new over the faces, from face t_ind on
RECURSIVE BuildConnections(_, _, _)
BuildConnections(fs, t_ind, map) ==
    IF t_ind >= Len(fs) THEN map
    ELSE LET f == fs[t_ind + 1]
             m1 == PushConnection(map, SortPair(f[1], f[2]), t_ind)
             m2 == PushConnection(m1, SortPair(f[2], f[3]), t_ind)
             m3 == PushConnection(m2, SortPair(f[3], f[1]), t_ind)
         IN  BuildConnections(fs, t_ind + 1, m3)

\* the filter of subdivide and its retain: the edge is longer than r
TooLong(vs, e, rad) == dist_sq(vs[e[1] + 1], vs[e[2] + 1]) > rad * rad

\* the first vertex of the face that is not an end of the edge; -1 when there is none
\* (the code's expect("triangle contained duplicate verts") then aborts)
OpositeVertex(face, edge) ==
    IF face[1] \notin {edge[1], edge[2]} THEN face[1]
    ELSE IF face[2] \notin {edge[1], edge[2]} THEN face[2]
    ELSE IF face[3] \notin {edge[1], edge[2]} THEN face[3]
    ELSE -1

\* the pass with "new_edges.push(n_edge)" left out: the median is not returned
DivideTriNoMedian(st, edge, new_v_ind, tri_ind) ==
    LET face == st.faces[tri_ind + 1]
        oposite_v_ind == OpositeVertex(face, edge)
        face2 == [n \in 1..3 |-> IF face[n] = edge[2] THEN new_v_ind ELSE face[n]]
        new_tri_ind == Len(st.faces)
        new_tri == <<edge[2], new_v_ind, oposite_v_ind>>
        split_edge == SortPair(edge[2], oposite_v_ind)
        ec1 == MapEntryOrDefault(st.edge_connections, split_edge)
        ec2 == [ec1 EXCEPT ![split_edge] =
                   [n \in 1..Len(@) |-> IF @[n] = tri_ind THEN new_tri_ind ELSE @[n]]]
        n_edge == SortPair(new_v_ind, oposite_v_ind)
    IN  IF oposite_v_ind = -1
        THEN [st EXCEPT !.panic = "triangle contained duplicate verts"]
        ELSE [faces |-> Append([st.faces EXCEPT ![tri_ind + 1] = face2], new_tri),
              edge_connections |-> MapInsert(ec2, n_edge, <<tri_ind, new_tri_ind>>),
              new_edges |-> st.new_edges,
              new_tris |-> Append(st.new_tris, new_tri_ind),
              panic |-> ""]

\* the pass with split_edge pushed to new_edges in the place of n_edge
DivideTriReturnsSplitEdge(st, edge, new_v_ind, tri_ind) ==
    LET face == st.faces[tri_ind + 1]
        oposite_v_ind == OpositeVertex(face, edge)
        face2 == [n \in 1..3 |-> IF face[n] = edge[2] THEN new_v_ind ELSE face[n]]
        new_tri_ind == Len(st.faces)
        new_tri == <<edge[2], new_v_ind, oposite_v_ind>>
        split_edge == SortPair(edge[2], oposite_v_ind)
        ec1 == MapEntryOrDefault(st.edge_connections, split_edge)
        ec2 == [ec1 EXCEPT ![split_edge] =
                   [n \in 1..Len(@) |-> IF @[n] = tri_ind THEN new_tri_ind ELSE @[n]]]
        n_edge == SortPair(new_v_ind, oposite_v_ind)
    IN  IF oposite_v_ind = -1
        THEN [st EXCEPT !.panic = "triangle contained duplicate verts"]
        ELSE [faces |-> Append([st.faces EXCEPT ![tri_ind + 1] = face2], new_tri),
              edge_connections |-> MapInsert(ec2, n_edge, <<tri_ind, new_tri_ind>>),
              new_edges |-> Append(st.new_edges, split_edge),
              new_tris |-> Append(st.new_tris, new_tri_ind),
              panic |-> ""]

\* the pass with the rewrite of the face in its own slot left out
DivideTriKeepsFace(st, edge, new_v_ind, tri_ind) ==
    LET face == st.faces[tri_ind + 1]
        oposite_v_ind == OpositeVertex(face, edge)
        new_tri_ind == Len(st.faces)
        new_tri == <<edge[2], new_v_ind, oposite_v_ind>>
        split_edge == SortPair(edge[2], oposite_v_ind)
        ec1 == MapEntryOrDefault(st.edge_connections, split_edge)
        ec2 == [ec1 EXCEPT ![split_edge] =
                   [n \in 1..Len(@) |-> IF @[n] = tri_ind THEN new_tri_ind ELSE @[n]]]
        n_edge == SortPair(new_v_ind, oposite_v_ind)
    IN  IF oposite_v_ind = -1
        THEN [st EXCEPT !.panic = "triangle contained duplicate verts"]
        ELSE [faces |-> Append(st.faces, new_tri),
              edge_connections |-> MapInsert(ec2, n_edge, <<tri_ind, new_tri_ind>>),
              new_edges |-> Append(st.new_edges, n_edge),
              new_tris |-> Append(st.new_tris, new_tri_ind),
              panic |-> ""]

\* One pass of the loop "for &tri_ind in &tris" of divide_edge, on the state
\* st = [faces, edge_connections, new_edges, new_tris, panic].
DivideTri(st, edge, new_v_ind, tri_ind) ==
    LET face == st.faces[tri_ind + 1]
        oposite_v_ind == OpositeVertex(face, edge)
        face2 == [n \in 1..3 |-> IF face[n] = edge[2] THEN new_v_ind ELSE face[n]]
        new_tri_ind == Len(st.faces)
        new_tri == <<edge[2], new_v_ind, oposite_v_ind>>
        split_edge == SortPair(edge[2], oposite_v_ind)
        ec1 == MapEntryOrDefault(st.edge_connections, split_edge)
        ec2 == [ec1 EXCEPT ![split_edge] =
                   [n \in 1..Len(@) |-> IF @[n] = tri_ind THEN new_tri_ind ELSE @[n]]]
        n_edge == SortPair(new_v_ind, oposite_v_ind)
    IN  IF oposite_v_ind = -1
        THEN [st EXCEPT !.panic = "triangle contained duplicate verts"]
        ELSE [faces |-> Append([st.faces EXCEPT ![tri_ind + 1] = face2], new_tri),
              edge_connections |-> MapInsert(ec2, n_edge, <<tri_ind, new_tri_ind>>),
              new_edges |-> Append(st.new_edges, n_edge),
              new_tris |-> Append(st.new_tris, new_tri_ind),
              panic |-> ""]

\* the loop "for &tri_ind in &tris" of divide_edge, from element n of tris on
RECURSIVE DivideTris(_, _, _, _, _)
DivideTris(st, edge, new_v_ind, tris, n) ==
    IF n > Len(tris) \/ st.panic # "" THEN st
    ELSE DivideTris(DivideTri(st, edge, new_v_ind, tris[n]), edge, new_v_ind, tris, n + 1)

\* TriMeshGraph::divide_edge on the mesh m = [verticies, faces, edge_connections]:
\* the mesh after the call, the edges it returns, and the message of the panic that
\* ended it ("" when it returned)
divide_edge(m, edge) ==
    LET new_vert == midpoint(m.verticies[edge[1] + 1], m.verticies[edge[2] + 1])
        new_v_ind == Len(m.verticies)
        removed == MapRemove(m.edge_connections, edge)
        tris == m.edge_connections[edge]
        st == DivideTris([faces |-> m.faces, edge_connections |-> removed,
                          new_edges |-> <<>>, new_tris |-> <<>>, panic |-> ""],
                         edge, new_v_ind, tris, 1)
        new_edge == SortPair(new_v_ind, edge[2])
        ec1 == MapInsert(st.edge_connections, new_edge, st.new_tris)
        ec2 == MapRemove(ec1, edge)
        edge2 == SortPair(edge[1], new_v_ind)
        ec3 == MapInsert(ec2, edge2, tris)
        failed(msg) == [verticies |-> m.verticies, faces |-> m.faces,
                        edge_connections |-> m.edge_connections,
                        new_edges |-> <<>>, panic |-> msg]
    IN  IF edge \notin DOMAIN m.edge_connections
        THEN failed("edge had no associated tris")
        ELSE IF st.panic # ""
        THEN failed(st.panic)
        ELSE [verticies |-> Append(m.verticies, new_vert),
              faces |-> st.faces,
              edge_connections |-> ec3,
              new_edges |-> st.new_edges \o <<new_edge, edge2>>,
              panic |-> ""]

\* the three sorted sides of a face, in the order neighbors visits them
Sides(face) ==
    <<SortPair(face[1], face[2]), SortPair(face[2], face[3]), SortPair(face[3], face[1])>>

\* the indexing edge_connections[&s] of neighbors finds a key for each side
SidesAreKeys(m, tri_ind) ==
    \A n \in 1..3 : Sides(m.faces[tri_ind + 1])[n] \in DOMAIN m.edge_connections

\* TriMeshGraph::neighbors: what the iterator yields, in order
neighbors(m, tri_ind) ==
    LET sides == Sides(m.faces[tri_ind + 1])
        all == m.edge_connections[sides[1]] \o m.edge_connections[sides[2]]
                   \o m.edge_connections[sides[3]]
    IN  SelectSeq(all, LAMBDA t : t # tri_ind)

(***************************************************************************)
(* surface/uniform.rs: UniformSurface::new                                 *)
(***************************************************************************)
\* KeptFaces without the "continue": a degenerate face is kept like any other
KeptFacesNoSkip(vs, fs) == fs

\* the faces UniformSurface::new keeps: those whose Triangle::from_points is Ok
KeptFaces(vs, fs) ==
    SelectSeq(fs, LAMBDA f : AreaIsNormal(vs[f[1] + 1], vs[f[2] + 1], vs[f[3] + 1]))

\* UniformSurface::new(verts, faces): Err(Initialization) at the first face with an index
\* out of range, Err(Initialization) when WeightedAliasIndex::new refuses the (empty) list
\* of areas, and otherwise the triangles of the kept faces with their weights.
UniformSurfaceNew(vs, fs) ==
    IF \E n \in 1..Len(fs) : ~VertIdsInRange(fs[n], vs)
    THEN [ok |-> FALSE, err |-> "face referenced vert index which is out of range",
          triangles |-> <<>>, triangle_dist |-> <<>>]
    ELSE LET kept == KeptFaces(vs, fs)
             tris == [n \in 1..Len(kept) |->
                         from_points(vs[kept[n][1] + 1], vs[kept[n][2] + 1], vs[kept[n][3] + 1])]
         IN  IF Len(kept) = 0
             THEN [ok |-> FALSE, err |-> "faces array is embty",
                   triangles |-> <<>>, triangle_dist |-> <<>>]
             ELSE [ok |-> TRUE, err |-> "",
                   triangles |-> tris,
                   triangle_dist |-> [n \in 1..Len(kept) |-> len_sq(tris[n].normal_dir)]]

(***************************************************************************)
(* surface/mod.rs and surface/uniform.rs: sampling                         *)
(***************************************************************************)
\* The draws rng.gen_range(0.0..1.0) are multiples of 1 / CoefDen, given by their numerator.
CoefDen == 4

\* mul(v, factor) for the factor num / CoefDen
mul(v, num) == <<(v[1] * num) \div CoefDen, (v[2] * num) \div CoefDen, (v[3] * num) \div CoefDen>>

\* the values rng.gen_range(0.0..1.0) can return
UnitDraws == 0..(CoefDen - 1)

\* Fold with "u_rand = 1.0 - u_rand" left out
FoldOneDraw(v_rand, u_rand) ==
    IF v_rand + u_rand > CoefDen
    THEN <<CoefDen - v_rand, u_rand>>
    ELSE <<v_rand, u_rand>>

\* the coefficients Triangle::sample uses for the draws v_rand and u_rand, after its fold
Fold(v_rand, u_rand) ==
    IF v_rand + u_rand > CoefDen
    THEN <<CoefDen - v_rand, CoefDen - u_rand>>
    ELSE <<v_rand, u_rand>>

\* Triangle::sample for the draws v_rand and u_rand
TriangleSample(tri, v_rand, u_rand) ==
    LET c == Fold(v_rand, u_rand)
    IN  add(tri.origin, add(mul(tri.v, c[1]), mul(tri.u, c[2])))

\* the pairs <<v_rand, u_rand>> the generator draws in the runs explored
Draws == {<<0, 3>>, <<3, 2>>}

(***************************************************************************)
(* surface/poisson_disk.rs: PoissonDiskSurface                             *)
(***************************************************************************)
\* the loop "for next_ind in self.mesh.neighbors(tri_ind)" of exists_point_within_sphere,
\* from element n of what neighbors yields, on sv = [searching, visited]
RECURSIVE PushUnvisited(_, _, _)
PushUnvisited(nb, n, sv) ==
    IF n > Len(nb) THEN sv
    ELSE IF nb[n] \in Range(sv.visited)
    THEN PushUnvisited(nb, n + 1, sv)
    ELSE PushUnvisited(nb, n + 1,
                       [searching |-> Append(sv.searching, nb[n]),
                        visited |-> Append(sv.visited, nb[n])])

\* samples_in_tri.iter().any(|&p| m::dist_sq(p, position) < r * r)
ExistsCloser(samples_in_tri, position, rad) ==
    \E n \in 1..Len(samples_in_tri) : dist_sq(samples_in_tri[n], position) < rad * rad

\* The loop "while let Some(tri_ind) = searching.pop()" of exists_point_within_sphere.
\* The result is [res, tested]: res is "true" or "false", the value returned, or the
\* message of the panic that ends the call; tested lists the triangles popped, in order.
RECURSIVE SearchLoop(_, _, _, _, _, _, _)
SearchLoop(m, tris, rad, position, buckets, sv, tested) ==
    IF sv.searching = <<>> THEN [res |-> "false", tested |-> tested]
    ELSE
      LET tri_ind == sv.searching[Len(sv.searching)]
          popped == [sv EXCEPT !.searching = SubSeq(sv.searching, 1, Len(sv.searching) - 1)]
          tested2 == Append(tested, tri_ind)
      IN  IF tri_ind >= Len(tris)
          THEN [res |-> "index out of bounds: triangles", tested |-> tested2]
          ELSE IF ~EdgeAssertionsHold(tris[tri_ind + 1], rad)
          THEN [res |-> "assertion failed: dist_sq <= r * r", tested |-> tested2]
          ELSE IF ~intersects_sphere(tris[tri_ind + 1], position, rad)
          THEN SearchLoop(m, tris, rad, position, buckets, popped, tested2)
          ELSE IF tri_ind >= Len(m.faces)
          THEN [res |-> "index out of bounds: faces", tested |-> tested2]
          ELSE IF ~SidesAreKeys(m, tri_ind)
          THEN [res |-> "key not found: edge_connections", tested |-> tested2]
          ELSE IF tri_ind >= Len(buckets)
          THEN [res |-> "index out of bounds: tri_buckets", tested |-> tested2]
          ELSE IF ExistsCloser(buckets[tri_ind + 1], position, rad)
          THEN [res |-> "true", tested |-> tested2]
          ELSE SearchLoop(m, tris, rad, position, buckets,
                          PushUnvisited(neighbors(m, tri_ind), 1, popped), tested2)

\* PoissonDiskSurface::exists_point_within_sphere
exists_point_within_sphere(m, tris, rad, position, t_index, buckets) ==
    SearchLoop(m, tris, rad, position, buckets,
               [searching |-> <<t_index>>, visited |-> <<t_index>>], <<>>)

\* KeepsSampling with the acceptance cap tested one pass too late
KeepsSamplingOffByOne(rt, fl, cnt, mx) == rt > fl /\ cnt <= mx

\* KeepsSampling with || in the place of &&
KeepsSamplingEither(rt, fl, cnt, mx) == rt > fl \/ cnt < mx

\* the condition of "while retries > failures && count < max"
KeepsSampling(rt, fl, cnt, mx) == rt > fl /\ cnt < mx

\* Concat with the buckets taken from the last triangle to the first
RECURSIVE ConcatDescending(_)
ConcatDescending(buckets) ==
    IF buckets = <<>> THEN <<>> ELSE ConcatDescending(Tail(buckets)) \o Head(buckets)

\* tri_buckets.concat()
RECURSIVE Concat(_)
Concat(buckets) ==
    IF buckets = <<>> THEN <<>> ELSE Head(buckets) \o Concat(Tail(buckets))

(***************************************************************************)
(* The constructor and sample_naive as functions of their inputs: the same *)
(* code as the actions below, run to its end on a given iteration order of *)
(* the hash map and a given sequence of draws.                             *)
(***************************************************************************)
\* the loop of subdivide run until the queue is empty or divide_edge aborts:
\* [verticies, faces, edge_connections, panic]
RECURSIVE SubdivideLoop(_, _, _)
SubdivideLoop(m, queue, rad) ==
    IF queue = <<>>
    THEN [verticies |-> m.verticies, faces |-> m.faces,
          edge_connections |-> m.edge_connections, panic |-> ""]
    ELSE LET d == divide_edge(m, Head(queue))
         IN  IF d.panic # ""
             THEN [verticies |-> d.verticies, faces |-> d.faces,
                   edge_connections |-> d.edge_connections, panic |-> d.panic]
             ELSE SubdivideLoop(
                      [verticies |-> d.verticies, faces |-> d.faces,
                       edge_connections |-> d.edge_connections],
                      Tail(queue) \o SelectSeq(d.new_edges, LAMBDA e : TooLong(d.verticies, e, rad)),
                      rad)

\* the keys subdivide queues first, for the input vs, fs (indices in range)
InitiallyTooLong(vs, fs, rad) ==
    {e \in DOMAIN BuildConnections(fs, 0, EmptyMap) : TooLong(vs, e, rad)}

\* PoissonDiskSurface::new(rad, vs, fs) when the hash map iterates the too long keys in the
\* order queue: [ok, mesh, triangles]; ok is FALSE when it aborts or returns Err
PoissonDiskSurfaceNew(rad, vs, fs, queue) ==
    LET g == SubdivideLoop([verticies |-> vs, faces |-> fs,
                            edge_connections |-> BuildConnections(fs, 0, EmptyMap)],
                           queue, rad)
        s == UniformSurfaceNew(g.verticies, g.faces)
    IN  [ok |-> g.panic = "" /\ s.ok,
         mesh |-> [verticies |-> g.verticies, faces |-> g.faces,
                   edge_connections |-> g.edge_connections],
         triangles |-> s.triangles]

\* The loop of sample_naive on the sampler sm = [mesh, triangles] when the generator yields
\* the candidates stream[n], stream[n + 1], ... (each a triangle index and the two draws).
\* [defined, out]: out is the Vec returned; defined is FALSE when the call needs more
\* candidates than the stream holds, is given an index that sm has no triangle for, or aborts.
RECURSIVE SampleNaiveOn(_, _, _, _, _, _, _, _, _)
SampleNaiveOn(sm, rad, rt, mx, stream, n, buckets, cnt, fl) ==
    IF ~KeepsSampling(rt, fl, cnt, mx) THEN [defined |-> TRUE, out |-> Concat(buckets)]
    ELSE IF n > Len(stream) \/ stream[n].t_index >= Len(sm.triangles)
    THEN [defined |-> FALSE, out |-> <<>>]
    ELSE LET t_root == stream[n].t_index
             position == TriangleSample(sm.triangles[t_root + 1],
                                        stream[n].v_rand, stream[n].u_rand)
             s == exists_point_within_sphere(sm.mesh, sm.triangles, rad, position,
                                             t_root, buckets)
         IN  IF s.res = "false"
             THEN SampleNaiveOn(sm, rad, rt, mx, stream, n + 1,
                                [buckets EXCEPT ![t_root + 1] = Append(@, position)],
                                cnt + 1, fl)
             ELSE IF s.res = "true"
             THEN SampleNaiveOn(sm, rad, rt, mx, stream, n + 1, buckets, cnt, fl + 1)
             ELSE [defined |-> FALSE, out |-> <<>>]

(***************************************************************************)
(* The input meshes.  Coordinates are multiples of 8 and the radii are     *)
(* large enough that refinement halves an edge at most three times.        *)
(***************************************************************************)
\* a 24 x 32 rectangle of two faces sharing its diagonal
Rect ==
    [verts |-> << <<0, 0, 0>>, <<24, 0, 0>>, <<24, 32, 0>>, <<0, 32, 0>> >>,
     faces |-> << <<0, 1, 2>>, <<0, 2, 3>> >>]

\* one right triangle
Tri ==
    [verts |-> << <<0, 0, 0>>, <<32, 0, 0>>, <<0, 32, 0>> >>,
     faces |-> << <<0, 1, 2>> >>]

\* a two-sided triangle: the same three vertices, once in each orientation
Pillow ==
    [verts |-> << <<0, 0, 0>>, <<32, 0, 0>>, <<0, 32, 0>> >>,
     faces |-> << <<0, 1, 2>>, <<0, 2, 1>> >>]

\* the tetrahedron of the crate's scenario, scaled by 16
Tetra ==
    [verts |-> << <<0, 0, 0>>, <<16, 0, 0>>, <<0, 16, 0>>, <<0, 0, 16>> >>,
     faces |-> << <<1, 0, 2>>, <<2, 0, 3>>, <<0, 1, 3>>, <<1, 2, 3>> >>]

\* a face of three collinear vertices (area 0) beside a proper face
Degen ==
    [verts |-> << <<0, 0, 0>>, <<16, 0, 0>>, <<32, 0, 0>>, <<16, 16, 0>> >>,
     faces |-> << <<0, 1, 2>>, <<0, 2, 3>> >>]

\* a face that names vertex 3 of three vertices
OutOfRange ==
    [verts |-> << <<0, 0, 0>>, <<32, 0, 0>>, <<0, 32, 0>> >>,
     faces |-> << <<0, 1, 2>>, <<0, 1, 3>> >>]

\* three faces around one edge
Fan ==
    [verts |-> << <<0, 0, 0>>, <<24, 0, 0>>, <<12, 8, 0>>, <<12, -8, 0>>, <<12, 0, 8>> >>,
     faces |-> << <<0, 1, 2>>, <<1, 0, 3>>, <<0, 1, 4>> >>]

\* a face that names one vertex twice
DupVert ==
    [verts |-> << <<0, 0, 0>>, <<32, 0, 0>>, <<0, 32, 0>> >>,
     faces |-> << <<0, 1, 2>>, <<1, 1, 2>> >>]

\* no face at all
NoFace ==
    [verts |-> << <<0, 0, 0>>, <<32, 0, 0>>, <<0, 32, 0>> >>,
     faces |-> << >>]

\* a single face of three collinear vertices
Flat ==
    [verts |-> << <<0, 0, 0>>, <<16, 0, 0>>, <<32, 0, 0>> >>,
     faces |-> << <<0, 1, 2>> >>]

\* the centers Triangle::intersects_sphere is called with when it is called on its own
Centers == {<<8 * x, 8 * y, 8 * z>> : x \in -1..4, y \in -1..4, z \in 0..1}

\* the meshes and radii of the runs that go on to sample
SampleMeshes == {Rect, Degen, OutOfRange}
SampleRadii == {24, 40}

\* the meshes and radii of the runs that stop when the sampler is built
RefineMeshes == {Rect, Tri, Pillow, Tetra, Degen, OutOfRange, Fan, DupVert, NoFace, Flat}
RefineRadii == {16, 24, 40}

\* every face names three different vertices
DistinctVertices(fs) == \A n \in 1..Len(fs) : Cardinality(Range(fs[n])) = 3

\* in the input, every edge is incident to at most 2 faces
AtMostTwoFacesPerEdge(fs) ==
    \A n \in 1..Len(fs) : \A k \in 1..3 :
        Cardinality({t \in 1..Len(fs) : \E j \in 1..3 : Sides(fs[t])[j] = Sides(fs[n])[k]}) <= 2

(***************************************************************************)
(* State.                                                                  *)
(***************************************************************************)
VARIABLES
    ctor,              \* the constructor that is called: UniformSurface or PoissonDiskSurface
    verts,             \* its argument verts
    in_faces,          \* its argument faces
    r,                 \* its argument r (PoissonDiskSurface::new)
    pc,                \* where the run is: start, subdivide, refined, ready (the constructor
                       \* returned Ok), error (it returned Err), sampling, done (sample_naive
                       \* returned), panic_new (the constructor aborted), panic_sample
                       \* (sample_naive aborted)
    abort,             \* the message of the panic that ended the run, "" while there is none
    verticies,         \* TriMeshGraph.verticies
    faces,             \* TriMeshGraph.faces
    edge_connections,  \* TriMeshGraph.edge_connections
    too_long_edges,    \* the work queue of subdivide
    new_edges,         \* subdivide's new_edges: the Vec the last divide_edge returned
    splits,            \* history: the edges divide_edge was called on, in order
    triangles,         \* UniformSurface.triangles
    triangle_dist,     \* UniformSurface.triangle_dist: the weights of the alias table
    surf_sample,       \* the SurfSample that UniformSurface::sample returned last, with its
                       \* draws, as a sequence of one element; empty before the first call
    sphere_test,       \* the last call of Triangle::intersects_sphere made on its own, as a
                       \* sequence of one element [tri, position, r, res]; empty before it
    runs,              \* history: the number of calls of sample_naive made on the sampler
    retries,           \* sample_naive's argument retries
    max,               \* sample_naive's argument max
    tri_buckets,       \* sample_naive's tri_buckets
    count,             \* sample_naive's count
    failures,          \* sample_naive's failures
    accepted,          \* history: the candidates accepted, in order, each with its draws
    drawn,             \* history: the number of calls of sampler.sample in this call
    out                \* the Vec sample_naive returned

meshVars == <<verticies, faces, edge_connections, too_long_edges, new_edges, splits>>
samplerVars == <<triangles, triangle_dist>>
runVars == <<retries, max, tri_buckets, count, failures, accepted, drawn, out>>
inputVars == <<ctor, verts, in_faces, r>>
vars == <<inputVars, pc, abort, meshVars, samplerVars, surf_sample, sphere_test, runs, runVars>>

\* the TriMeshGraph of the state
Mesh == [verticies |-> verticies, faces |-> faces, edge_connections |-> edge_connections]

InitOn(ctors, meshes, radii) ==
    /\ ctor \in ctors
    /\ \E m \in meshes : verts = m.verts /\ in_faces = m.faces
    /\ r \in radii
    /\ pc = "start"
    /\ abort = ""
    /\ verticies = <<>>
    /\ faces = <<>>
    /\ edge_connections = EmptyMap
    /\ too_long_edges = <<>>
    /\ new_edges = <<>>
    /\ splits = <<>>
    /\ triangles = <<>>
    /\ triangle_dist = <<>>
    /\ surf_sample = <<>>
    /\ sphere_test = <<>>
    /\ runs = 0
    /\ retries = 0
    /\ max = 0
    /\ tri_buckets = <<>>
    /\ count = 0
    /\ failures = 0
    /\ accepted = <<>>
    /\ drawn = 0
    /\ out = <<>>

(***************************************************************************)
(* Construction.                                                           *)
(***************************************************************************)
\* UniformSurface::new(verts, faces), called by the user
UniformSurfaceNewCall ==
    /\ pc = "start"
    /\ ctor = "UniformSurface"
    /\ LET s == UniformSurfaceNew(verts, in_faces)
       IN  /\ pc' = IF s.ok THEN "ready" ELSE "error"
           /\ triangles' = s.triangles
           /\ triangle_dist' = s.triangle_dist
    /\ UNCHANGED <<inputVars, surf_sample, sphere_test, runs, abort, meshVars, runVars>>

\* PoissonDiskSurface::new, the call TriMeshGraph::new up to the first pass of the loop of
\* subdivide: the index is built, and the filter over edge_connections.keys() reads
\* self.verticies[i] and self.verticies[j] for every key (an index out of range aborts);
\* the too long keys are queued in the order the hash map iterates them.
TriMeshGraphNew ==
    /\ pc = "start"
    /\ ctor = "PoissonDiskSurface"
    /\ LET ec == BuildConnections(in_faces, 0, EmptyMap)
       IN  /\ verticies' = verts
           /\ faces' = in_faces
           /\ edge_connections' = ec
           /\ IF \E e \in DOMAIN ec : e[2] >= Len(verts)
              THEN /\ pc' = "panic_new"
                   /\ abort' = "index out of bounds"
                   /\ too_long_edges' = <<>>
              ELSE /\ pc' = "subdivide"
                   /\ abort' = ""
                   /\ too_long_edges' \in Orderings({e \in DOMAIN ec : TooLong(verts, e, r)})
    /\ UNCHANGED <<inputVars, surf_sample, sphere_test, runs, new_edges, splits, samplerVars,
                   runVars>>

\* one pass of "while let Some(edge) = too_long_edges.pop_front()"
SubdivideStep ==
    /\ pc = "subdivide"
    /\ too_long_edges # <<>>
    /\ LET edge == Head(too_long_edges)
           d == divide_edge(Mesh, edge)
       IN  /\ splits' = Append(splits, edge)
           /\ new_edges' = d.new_edges
           /\ verticies' = d.verticies
           /\ faces' = d.faces
           /\ edge_connections' = d.edge_connections
           /\ IF d.panic # ""
              THEN /\ pc' = "panic_new"
                   /\ abort' = d.panic
                   /\ too_long_edges' = Tail(too_long_edges)
              ELSE /\ pc' = "subdivide"
                   /\ abort' = ""
                   /\ too_long_edges' =
                          Tail(too_long_edges)
                              \o SelectSeq(d.new_edges, LAMBDA e : TooLong(d.verticies, e, r))
    /\ UNCHANGED <<inputVars, surf_sample, sphere_test, runs, samplerVars, runVars>>

\* the queue is empty: subdivide and TriMeshGraph::new return
SubdivideReturn ==
    /\ pc = "subdivide"
    /\ too_long_edges = <<>>
    /\ pc' = "refined"
    /\ UNCHANGED <<inputVars, surf_sample, sphere_test, runs, abort, meshVars, samplerVars, runVars>>

\* PoissonDiskSurface::new after TriMeshGraph::new: UniformSurface::new on the refined mesh
PoissonDiskSurfaceNewSampler ==
    /\ pc = "refined"
    /\ LET s == UniformSurfaceNew(verticies, faces)
       IN  /\ pc' = IF s.ok THEN "ready" ELSE "error"
           /\ triangles' = s.triangles
           /\ triangle_dist' = s.triangle_dist
    /\ UNCHANGED <<inputVars, surf_sample, sphere_test, runs, abort, meshVars, runVars>>

NextRefine ==
    \/ UniformSurfaceNewCall
    \/ TriMeshGraphNew
    \/ SubdivideStep
    \/ SubdivideReturn
    \/ PoissonDiskSurfaceNewSampler

\* construction alone, on every mesh
SpecRefine ==
    InitOn({"UniformSurface", "PoissonDiskSurface"}, RefineMeshes, RefineRadii)
        /\ [][NextRefine]_vars

\* The loop of subdivide waits for nothing: while it can take a pass it takes one, and
\* when the queue is empty it returns.
\* A pass changes splits, so it can be taken exactly when its guard holds; weak fairness
\* of SubdivideStep is written with that guard in the place of ENABLED.
FairSpecRefine ==
    /\ SpecRefine
    /\ ([]<>~(pc = "subdivide" /\ too_long_edges # <<>>) \/ []<><<SubdivideStep>>_vars)
    /\ WF_vars(SubdivideReturn)

(***************************************************************************)
(* PoissonDiskSurface::sample_naive                                        *)
(***************************************************************************)
\* NewBuckets with the buckets of the run before kept, as a field never cleared would be
NewBucketsKept(tri_count) ==
    IF Len(tri_buckets) = tri_count THEN tri_buckets ELSE [n \in 1..tri_count |-> <<>>]

\* vec![Vec::new(); tri_count]
NewBuckets(tri_count) == [n \in 1..tri_count |-> <<>>]

\* a call, the first on the sampler or a later one, up to the first test of the loop
\* condition
SampleNaiveCall ==
    /\ pc \in {"ready", "done"}
    /\ ctor = "PoissonDiskSurface"
    /\ runs < MaxRuns
    /\ runs' = runs + 1
    /\ retries' \in 0..MaxRetries
    /\ max' \in 0..MaxSamples
    /\ tri_buckets' = NewBuckets(Len(triangles))
    /\ count' = 0
    /\ failures' = 0
    /\ accepted' = <<>>
    /\ drawn' = 0
    /\ out' = <<>>
    /\ pc' = "sampling"
    /\ UNCHANGED <<inputVars, surf_sample, sphere_test, abort, meshVars, samplerVars>>

\* One pass of "while retries > failures && count < max": the sampler draws triangle
\* t_root from the alias table (every triangle has a positive weight) and the pair
\* <<v_rand, u_rand>>, and the candidate is accepted or rejected.
SampleNaiveStep ==
    /\ pc = "sampling"
    /\ KeepsSampling(retries, failures, count, max)
    /\ drawn' = drawn + 1
    /\ \E t_root \in 0..(Len(triangles) - 1), d \in Draws :
         LET position == TriangleSample(triangles[t_root + 1], d[1], d[2])
             s == exists_point_within_sphere(Mesh, triangles, r, position, t_root, tri_buckets)
         IN  IF s.res = "false"
             THEN /\ tri_buckets' = [tri_buckets EXCEPT ![t_root + 1] = Append(@, position)]
                  /\ count' = count + 1
                  /\ accepted' = Append(accepted, [t_index |-> t_root, position |-> position,
                                                   v_rand |-> d[1], u_rand |-> d[2]])
                  /\ UNCHANGED <<failures, pc, abort>>
             ELSE IF s.res = "true"
             THEN /\ failures' = failures + 1
                  /\ UNCHANGED <<tri_buckets, count, accepted, pc, abort>>
             ELSE /\ pc' = "panic_sample"
                  /\ abort' = s.res
                  /\ UNCHANGED <<tri_buckets, count, failures, accepted>>
    /\ UNCHANGED <<inputVars, surf_sample, sphere_test, runs, meshVars, samplerVars, retries, max, out>>

\* the loop condition is false: tri_buckets.concat() is returned
SampleNaiveReturn ==
    /\ pc = "sampling"
    /\ ~KeepsSampling(retries, failures, count, max)
    /\ out' = Concat(tri_buckets)
    /\ pc' = "done"
    /\ UNCHANGED <<inputVars, surf_sample, sphere_test, runs, abort, meshVars, samplerVars,
                   retries, max, tri_buckets, count, failures, accepted, drawn>>

\* UniformSurface::sample on a sampler the user built: the alias table yields an index of
\* positive weight, Triangle::sample draws v_rand and u_rand
UniformSurfaceSample ==
    /\ pc = "ready"
    /\ ctor = "UniformSurface"
    /\ \E t_ind \in {n \in 0..(Len(triangle_dist) - 1) : triangle_dist[n + 1] > 0},
          v_rand \in UnitDraws, u_rand \in UnitDraws :
           surf_sample' = << [position |-> TriangleSample(triangles[t_ind + 1], v_rand, u_rand),
                              t_index |-> t_ind,
                              triangle |-> triangles[t_ind + 1],
                              v_rand |-> v_rand, u_rand |-> u_rand] >>
    /\ UNCHANGED <<inputVars, sphere_test, pc, abort, meshVars, samplerVars, runs, runVars>>

Next ==
    \/ UniformSurfaceNewCall
    \/ UniformSurfaceSample
    \/ TriMeshGraphNew
    \/ SubdivideStep
    \/ SubdivideReturn
    \/ PoissonDiskSurfaceNewSampler
    \/ SampleNaiveCall
    \/ SampleNaiveStep
    \/ SampleNaiveReturn

\* construction and calls of sample_naive
Spec ==
    InitOn({"UniformSurface", "PoissonDiskSurface"}, SampleMeshes, SampleRadii)
        /\ [][Next]_vars

(***************************************************************************)
(* Properties.                                                             *)
(***************************************************************************)
\* some face of the input names a vertex index >= verts.len()
HasOutOfRange == \E n \in 1..Len(in_faces) : ~VertIdsInRange(in_faces[n], verts)

\* how often p occurs in the sequence s
Occurrences(s, p) == Cardinality({k \in 1..Len(s) : s[k] = p})

\* C1: any two distinct points of the sequence sample_naive returns are at least r apart
\* (squared distance >= r * r).
C1_MinimumSeparation ==
    pc = "done" =>
        \A i \in 1..Len(out) : \A j \in 1..Len(out) :
            out[i] # out[j] => dist_sq(out[i], out[j]) >= r * r

\* C4: once PoissonDiskSurface::new has returned Ok, sample_naive never aborts: no edge
\* assertion of intersects_sphere fails, every edge neighbors looks up is a key, and every
\* triangle index is in range of triangles, tri_buckets and faces.
C4_SampleNaiveNeverAborts == pc # "panic_sample"

\* C6: sample_naive returns exactly the points it accepted: as many as count, at most max;
\* on return failures >= retries or count = max; running out of retries before max is
\* reached is a normal return of the points accepted so far.
C6_ReturnsTheAccepted ==
    pc = "done" =>
        /\ Len(out) = count
        /\ count <= max
        /\ failures >= retries \/ count = max
        /\ Len(accepted) = count
        /\ \A k \in 1..Len(accepted) :
               Occurrences(out, accepted[k].position)
                   = Cardinality({n \in 1..Len(accepted) :
                                      accepted[n].position = accepted[k].position})

\* sample_naive has returned for lack of retries, with some points and fewer than max
C6_Witness == pc = "done" /\ failures >= retries /\ count > 0 /\ count < max

\* C7: accepting a candidate resets the failure counter to zero.
C7_AcceptanceResetsFailures ==
    [][(pc = "sampling" /\ count' = count + 1) => failures' = 0]_vars

\* C8: the sequence returned is the concatenation of the buckets in ascending triangle
\* index, each bucket in the order its points were accepted.
C8_BucketOrder ==
    pc = "done" =>
        /\ Len(out) = Len(accepted)
        /\ \E at \in [1..Len(out) -> 1..Len(accepted)] :
               \* out[i] is the point accepted at[i]-th
               /\ \A i \in 1..Len(out) : out[i] = accepted[at[i]].position
               /\ \A i \in 1..Len(out) : \A j \in 1..Len(out) :
                      i < j => \/ accepted[at[i]].t_index < accepted[at[j]].t_index
                               \/ /\ accepted[at[i]].t_index = accepted[at[j]].t_index
                                  /\ at[i] < at[j]

\* sample_naive has returned two points, the first accepted on the higher triangle index
C8_Witness ==
    /\ pc = "done"
    /\ Len(accepted) = 2
    /\ accepted[1].t_index > accepted[2].t_index
    /\ accepted[1].position # accepted[2].position

\* C10: when a face names a vertex index >= verts.len(), both constructors return an
\* Initialization error and neither aborts.
C10_IndexErrorIsReturned == HasOutOfRange => pc \in {"start", "error"}

\* the index of TriMeshGraph is built and no abort has ended the run
IndexBuilt ==
    /\ ctor = "PoissonDiskSurface"
    /\ pc \in {"subdivide", "refined", "ready", "error", "sampling", "done"}

\* subdivide has returned
Refined ==
    /\ ctor = "PoissonDiskSurface"
    /\ pc \in {"refined", "ready", "error", "sampling", "done"}

\* the input is a mesh in which every edge is incident to at most 2 faces: its indices
\* are in range and each face has three different vertices
TwoFacesPerEdgeInput ==
    /\ ~HasOutOfRange
    /\ DistinctVertices(in_faces)
    /\ AtMostTwoFacesPerEdge(in_faces)

\* faces f and g have two vertex indices in common
ShareEdge(f, g) == Cardinality(Range(faces[f + 1]) \cap Range(faces[g + 1])) >= 2

\* C2: when refinement has returned, every edge of every face has squared length <= r * r,
\* and an input that had an edge longer than r has got strictly more faces.
C2_RefinedEdgesWithinRadius ==
    Refined =>
        /\ \A n \in 1..Len(faces) : \A k \in 1..3 :
               dist_sq(verticies[Sides(faces[n])[k][1] + 1],
                       verticies[Sides(faces[n])[k][2] + 1]) <= r * r
        /\ (\E n \in 1..Len(in_faces) : \E k \in 1..3 :
                dist_sq(verts[Sides(in_faces[n])[k][1] + 1],
                        verts[Sides(in_faces[n])[k][2] + 1]) > r * r)
               => Len(faces) > Len(in_faces)

\* refinement has returned after splitting an edge that one of its own splits created
C2_Witness ==
    /\ Refined
    /\ Len(faces) > Len(in_faces)
    /\ \E n \in 1..Len(splits) : splits[n][2] >= Len(verts)

\* C3: for an input in which every edge is incident to at most 2 faces, once the index is
\* built and after any number of splits, neighbors(f) never yields f, and two distinct
\* faces that share an edge are each yielded by neighbors of the other.
C3_NeighborsSymmetric ==
    (TwoFacesPerEdgeInput /\ IndexBuilt) =>
        \A f \in 0..(Len(faces) - 1) :
            /\ SidesAreKeys(Mesh, f)
            /\ f \notin Range(neighbors(Mesh, f))
            /\ \A g \in 0..(Len(faces) - 1) :
                   (g # f /\ ShareEdge(f, g)) => g \in Range(neighbors(Mesh, f))

\* C5: for an input in which every edge is incident to at most 2 faces, the loop of
\* subdivide eventually pops its last edge and returns.
C5_RefinementReturns ==
    (TwoFacesPerEdgeInput /\ pc = "subdivide") ~> Refined

\* C9: the output does not depend on the order in which the hash map yields the edges that
\* are too long at first: a run in which every candidate was accepted (so that the
\* candidates it drew are the ones in accepted) returns what the same candidates give on
\* the sampler built with any other order.
C9_IndependentOfHashOrder ==
    (pc = "done" /\ failures = 0) =>
        \A queue \in Orderings(InitiallyTooLong(verts, in_faces, r)) :
            LET sm == PoissonDiskSurfaceNew(r, verts, in_faces, queue)
                rp == SampleNaiveOn(sm, r, retries, max, accepted, 1,
                                    [n \in 1..Len(sm.triangles) |-> <<>>], 0, 0)
            IN  (sm.ok /\ rp.defined) => rp.out = out

\* Triangle::intersects_sphere, called with the radius r on the triangle of a face of the
\* input and a center: it returns a bool, or one of its three assertions aborts it
IntersectsSphereCall ==
    /\ pc = "start"
    /\ \E n \in 1..Len(in_faces), position \in Centers :
           /\ VertIdsInRange(in_faces[n], verts)
           /\ LET p == vert_ids_to_pos(in_faces[n], verts)
                  tri == from_points(p[1], p[2], p[3])
              IN  /\ AreaIsNormal(p[1], p[2], p[3])
                  /\ sphere_test' =
                         << [tri |-> tri, position |-> position, r |-> r,
                             res |-> IF ~EdgeAssertionsHold(tri, r)
                                     THEN "assertion failed: dist_sq <= r * r"
                                     ELSE IF intersects_sphere(tri, position, r)
                                     THEN "true" ELSE "false"] >>
    /\ UNCHANGED <<inputVars, surf_sample, pc, abort, meshVars, samplerVars, runs, runVars>>

\* Triangle::intersects_sphere alone, on the triangles of every mesh
SpecSphere ==
    InitOn({"PoissonDiskSurface"}, RefineMeshes, RefineRadii) /\ [][IntersectsSphereCall]_vars

NextUniform ==
    \/ UniformSurfaceNewCall
    \/ UniformSurfaceSample

\* the uniform sampler alone, on every mesh
SpecUniform == InitOn({"UniformSurface"}, RefineMeshes, RefineRadii) /\ [][NextUniform]_vars

(***************************************************************************)
(* UniformSurface::new and the sampler                                     *)
(***************************************************************************)
\* UniformSurface::new has returned, Ok or Err
SamplerBuilt == pc \in {"ready", "error", "sampling", "done"}

\* the arguments of the call of UniformSurface::new: the user's, or those of
\* PoissonDiskSurface::new after refinement
CallVerts == IF ctor = "UniformSurface" THEN verts ELSE verticies
CallFaces == IF ctor = "UniformSurface" THEN in_faces ELSE faces

\* face n of the call (1-based) has three vertices that are not collinear: its area is not 0
NonDegenerate(n) ==
    LET p == vert_ids_to_pos(CallFaces[n], CallVerts)
    IN  cross(diff(p[2], p[1]), diff(p[3], p[1])) # <<0, 0, 0>>

\* C11: when every face index is in range, UniformSurface::new returns an error exactly
\* when no face is non-degenerate (an empty face list included), and otherwise its triangle
\* list holds the triangles of exactly the non-degenerate faces, in input order.
C11_DegenerateFacesSkipped ==
    (SamplerBuilt /\ ~HasOutOfRange) =>
        LET good == {n \in 1..Len(CallFaces) : NonDegenerate(n)}
        IN  /\ (pc = "error") <=> (good = {})
            /\ pc # "error" =>
                   /\ Len(triangles) = Cardinality(good)
                   /\ \A k \in 1..Len(triangles) :
                          \E n \in good :
                              /\ Cardinality({j \in good : j < n}) = k - 1
                              /\ triangles[k].points = vert_ids_to_pos(CallFaces[n], CallVerts)

\* the constructor returned Ok after skipping a degenerate face that precedes a kept one
C11_Witness ==
    /\ pc = "ready"
    /\ \E n \in 1..Len(CallFaces) : \E k \in 1..Len(CallFaces) :
           n < k /\ ~NonDegenerate(n) /\ NonDegenerate(k)

(***************************************************************************)
(* Edge splits                                                             *)
(***************************************************************************)
\* a pass of the loop of subdivide in which divide_edge returned
SplitStep == pc = "subdivide" /\ pc' = "subdivide"

\* (2 * area)^2 of a face: the squared length of the cross product of two of its sides
AreaSq(vs, face) ==
    LET p == vert_ids_to_pos(face, vs)
    IN  len_sq(cross(diff(p[2], p[1]), diff(p[3], p[1])))

\* the largest k in lo..hi with k * k <= n (for lo * lo <= n)
RECURSIVE Root(_, _, _)
Root(n, lo, hi) ==
    IF lo >= hi THEN lo
    ELSE LET mid == (lo + hi + 1) \div 2
         IN  IF mid * mid <= n THEN Root(n, mid, hi) ELSE Root(n, lo, mid - 1)

\* 2 * area of every face of fs is an integer
AreasAreIntegers(vs, fs) ==
    \A n \in 1..Len(fs) :
        LET a == AreaSq(vs, fs[n]) IN Root(a, 0, MaxRoot) * Root(a, 0, MaxRoot) = a

\* the sum of 2 * area over the faces fs[n], fs[n + 1], ...
RECURSIVE TotalArea(_, _, _)
TotalArea(vs, fs, n) ==
    IF n > Len(fs) THEN 0
    ELSE Root(AreaSq(vs, fs[n]), 0, MaxRoot) + TotalArea(vs, fs, n + 1)

\* each face the split rewrote is matched with one face the split appended, and each of
\* the two has half the area of the face before the split
SplitHalvesFaces ==
    LET rewritten == {f \in 1..Len(faces) : faces'[f] # faces[f]}
        appended == (Len(faces) + 1)..Len(faces')
    IN  /\ Cardinality(rewritten) = Cardinality(appended)
        /\ \E with \in [rewritten -> appended] :
               /\ \A f \in rewritten : \A g \in rewritten : with[f] = with[g] => f = g
               /\ \A f \in rewritten :
                      /\ 4 * AreaSq(verticies', faces'[f]) = AreaSq(verticies, faces[f])
                      /\ 4 * AreaSq(verticies', faces'[with[f]]) = AreaSq(verticies, faces[f])

\* C12: every edge split replaces each incident face by two faces whose areas sum to the
\* area of the face they replace (each has half of it), and after the split the face areas
\* of the mesh sum to what the face areas of the input sum to (compared where the areas
\* are integers, so that no square root is irrational).
C12_AreaPreserved ==
    [][SplitStep =>
          /\ SplitHalvesFaces
          /\ (AreasAreIntegers(verts, in_faces) /\ AreasAreIntegers(verticies', faces'))
                 => TotalArea(verticies', faces', 1) = TotalArea(verts, in_faces, 1)]_vars

\* three splits have been made on a mesh of positive area whose face areas are integers
C12_Witness ==
    /\ pc = "subdivide"
    /\ Len(splits) >= 3
    /\ AreasAreIntegers(verts, in_faces) /\ AreasAreIntegers(verticies, faces)
    /\ TotalArea(verticies, faces, 1) > 0

\* C13: for every pair of draws in [0, 1), the coefficients Triangle::sample uses after its
\* fold are >= 0 and sum to at most 1, the position returned lies inside the selected
\* triangle, and that triangle is one of the non-degenerate faces the sampler was built from.
C13_SampleInsideTriangle ==
    \A k \in 1..Len(surf_sample) :
        LET smp == surf_sample[k]
            c == Fold(smp.v_rand, smp.u_rand)
            p == smp.triangle.points
        IN  /\ c[1] >= 0 /\ c[2] >= 0 /\ c[1] + c[2] <= CoefDen
            /\ \E a \in 0..CoefDen : \E b \in 0..(CoefDen - a) :
                   \A x \in 1..3 :
                       CoefDen * (smp.position[x] - p[1][x])
                           = a * (p[2][x] - p[1][x]) + b * (p[3][x] - p[1][x])
            /\ smp.t_index < Len(triangles)
            /\ smp.triangle = triangles[smp.t_index + 1]
            /\ \E n \in 1..Len(in_faces) :
                   NonDegenerate(n) /\ p = vert_ids_to_pos(in_faces[n], verts)

\* a sample whose draws were folded, on a sampler that skipped a degenerate face
C13_Witness ==
    /\ Len(surf_sample) = 1
    /\ surf_sample[1].v_rand + surf_sample[1].u_rand > CoefDen
    /\ Len(triangles) < Len(in_faces)

(***************************************************************************)
(* sample_naive and the sampler                                            *)
(***************************************************************************)
\* a step of a call of sample_naive: its entry, a pass of its loop, its return or its abort
SampleNaiveRuns ==
    /\ pc \in {"ready", "sampling", "done"}
    /\ pc' \in {"sampling", "done", "panic_sample"}

\* C14: sample_naive leaves the sampler as it is (vertices, faces, adjacency index,
\* triangles, alias table), every call starts with one empty bucket per triangle, and a
\* call returns what a call with empty buckets returns on the same sampler, arguments and
\* candidates, however many calls were made before (compared on the calls that rejected
\* nothing, whose candidates are those in accepted).
C14_SamplerUnchangedBucketsFresh ==
    [][SampleNaiveRuns =>
          /\ UNCHANGED <<verticies, faces, edge_connections, triangles, triangle_dist>>
          /\ (pc # "sampling" /\ pc' = "sampling") =>
                 /\ Len(tri_buckets') = Len(triangles)
                 /\ \A n \in 1..Len(tri_buckets') : tri_buckets'[n] = <<>>
          /\ (pc' = "done" /\ failures' = 0) =>
                 out' = SampleNaiveOn([mesh |-> Mesh, triangles |-> triangles], r,
                                      retries, max, accepted', 1,
                                      [n \in 1..Len(triangles) |-> <<>>], 0, 0).out]_vars

\* the second call on the sampler has returned points without rejecting a candidate
C14_Witness ==
    /\ pc = "done"
    /\ runs = 2
    /\ out # <<>>
    /\ failures = 0

(***************************************************************************)
(* The adjacency index and the work queue                                  *)
(***************************************************************************)
\* the faces (0-based) that have both ends of the edge e among their vertices
FacesOn(e) == {f \in 0..(Len(faces) - 1) : {e[1], e[2]} \subseteq Range(faces[f + 1])}

\* C15: for an input in which every edge is incident to at most 2 faces, after the build
\* and after every split the index is exact: the list of every key has 1 or 2 elements
\* without a duplicate, which are exactly the faces that have both ends of the key among
\* their vertices, and every side of every face is a key.
C15_AdjacencyIndexExact ==
    (TwoFacesPerEdgeInput /\ IndexBuilt) =>
        /\ \A e \in DOMAIN edge_connections :
               /\ Len(edge_connections[e]) \in {1, 2}
               /\ Cardinality(Range(edge_connections[e])) = Len(edge_connections[e])
               /\ Range(edge_connections[e]) = FacesOn(e)
        /\ \A f \in 0..(Len(faces) - 1) : SidesAreKeys(Mesh, f)

(***************************************************************************)
(* Triangle::intersects_sphere                                             *)
(***************************************************************************)
\* CoefDen times the point origin + (a / CoefDen) * u + (b / CoefDen) * v of the triangle
PointOf(tri, a, b) ==
    <<CoefDen * tri.origin[1] + a * tri.u[1] + b * tri.v[1],
      CoefDen * tri.origin[2] + a * tri.u[2] + b * tri.v[2],
      CoefDen * tri.origin[3] + a * tri.u[3] + b * tri.v[3]>>

\* some point of the triangle (a corner, a point of a side or an inner point, on the grid
\* of the draws) is within rad of position
SphereReaches(tri, position, rad) ==
    \E a \in 0..CoefDen : \E b \in 0..(CoefDen - a) :
        dist_sq(PointOf(tri, a, b),
                <<CoefDen * position[1], CoefDen * position[2], CoefDen * position[3]>>)
            <= CoefDen * CoefDen * rad * rad

\* C16: for a triangle whose three edges are at most r long, intersects_sphere(center, r)
\* returns true whenever some point of the triangle is within r of center.
C16_VertexTestNeverMisses ==
    \A k \in 1..Len(sphere_test) :
        LET t == sphere_test[k]
        IN  (EdgeAssertionsHold(t.tri, t.r) /\ SphereReaches(t.tri, t.position, t.r))
                => t.res = "true"

(***************************************************************************)
(* PoissonDiskSurface: sampler and mesh                                    *)
(***************************************************************************)
\* C17: in a PoissonDiskSurface the triangle list of the sampler is index-aligned with the
\* face list of the refined mesh: they have the same length and triangles[i] is the
\* triangle of faces[i], so one index addresses the same face in both.
C17_TrianglesAlignedWithFaces ==
    (ctor = "PoissonDiskSurface" /\ pc \in {"ready", "sampling", "done"}) =>
        /\ Len(triangles) = Len(faces)
        /\ \A n \in 1..Len(triangles) :
               n <= Len(faces) => triangles[n].points = vert_ids_to_pos(faces[n], verticies)

\* C18: while a mesh in which every edge is incident to at most 2 faces is refined, at the
\* start of every pass of the loop every key of the index that is longer than r is queued,
\* the queue holds no edge twice and every queued edge is a key of the index; so popping an
\* edge never ends in the abort "edge had no associated tris".
C18_QueueMatchesIndex ==
    TwoFacesPerEdgeInput =>
        /\ pc = "subdivide" =>
               /\ \A e \in DOMAIN edge_connections :
                      dist_sq(verticies[e[1] + 1], verticies[e[2] + 1]) > r * r
                          => e \in Range(too_long_edges)
               /\ Cardinality(Range(too_long_edges)) = Len(too_long_edges)
               /\ \A n \in 1..Len(too_long_edges) : too_long_edges[n] \in DOMAIN edge_connections
        /\ abort # "edge had no associated tris"

(***************************************************************************)
(* divide_edge                                                             *)
(***************************************************************************)
\* the vertices of face f (0-based) that are not an end of the edge e
OppositeOf(f, e) == Range(faces[f + 1]) \ {e[1], e[2]}

\* C19: a split of the edge (e0, e1) with the new vertex nv returns exactly the keys that
\* are in the index after the split and were not before: (e0, nv), (nv, e1) and (nv, c) for
\* the opposite vertex c of each incident face; the split edge is no longer a key and
\* every other key is kept.
C19_ReturnsTheNewKeys ==
    [][SplitStep =>
          LET edge == Head(too_long_edges)
              nv == Len(verticies)
          IN  /\ Range(new_edges') = (DOMAIN edge_connections') \ (DOMAIN edge_connections)
              /\ Range(new_edges') =
                     {SortPair(edge[1], nv), SortPair(nv, edge[2])}
                         \cup {SortPair(nv, c) : c \in UNION {OppositeOf(f, edge) : f \in FacesOn(edge)}}
              /\ edge \notin DOMAIN edge_connections'
              /\ (DOMAIN edge_connections) \ {edge} \subseteq DOMAIN edge_connections']_vars

\* a split of an edge with two incident faces on a mesh that earlier splits have changed
C19_Witness ==
    /\ pc = "subdivide"
    /\ Len(splits) >= 2
    /\ Len(new_edges) = 4
    /\ Cardinality(Range(new_edges)) = 4

\* C20: a split of an edge with k incident faces, k = 1 or 2, appends exactly one vertex,
\* the midpoint of the edge, and exactly k faces; it leaves the position of every vertex
\* there was and every face not incident to the edge unchanged, and it rewrites each
\* incident face in its own slot (one end of the edge becomes the new vertex), so that no
\* face is removed or moved.
C20_SplitFrame ==
    [][(SplitStep /\ Cardinality(FacesOn(Head(too_long_edges))) \in {1, 2}) =>
          LET edge == Head(too_long_edges)
              nv == Len(verticies)
              k == Cardinality(FacesOn(edge))
              pl == verticies[edge[1] + 1]
              pr == verticies[edge[2] + 1]
          IN  /\ Len(verticies') = Len(verticies) + 1
              /\ \A n \in 1..Len(verticies) : verticies'[n] = verticies[n]
              /\ \A x \in 1..3 : 2 * verticies'[nv + 1][x] = pl[x] + pr[x]
              /\ Len(faces') = Len(faces) + k
              /\ \A f \in 0..(Len(faces) - 1) :
                     IF f \in FacesOn(edge)
                     THEN \E end \in {edge[1], edge[2]} :
                              faces'[f + 1] = [n \in 1..3 |-> IF faces[f + 1][n] = end
                                                              THEN nv ELSE faces[f + 1][n]]
                     ELSE faces'[f + 1] = faces[f + 1]]_vars

\* splits of an edge with one incident face and of an edge with two have been made
C20_Witness ==
    /\ pc = "subdivide"
    /\ Len(splits) >= 2
    /\ Len(new_edges) = 4
    /\ Len(faces) > Len(in_faces) + Len(splits)
    /\ Len(faces) < Len(in_faces) + 2 * Len(splits)

\* C21: when the edge that is to be split is incident to more than 2 faces, construction
\* stops with an assertion failure, so refinement never goes on after such a split.
C21_NonManifoldEdgeAborts ==
    [][(/\ pc = "subdivide"
        /\ too_long_edges # <<>>
        /\ Cardinality(FacesOn(Head(too_long_edges))) > 2)
           => pc' = "panic_new"]_vars

(***************************************************************************)
(* The number of splits                                                    *)
(***************************************************************************)
\* the edges of the input mesh
InputEdges == DOMAIN BuildConnections(in_faces, 0, EmptyMap)

\* ceil(log2(L / r)) for an edge of squared length lsq and the squared radius rsq: the
\* number of times L has to be halved to be at most r
RECURSIVE Halvings(_, _)
Halvings(lsq, rsq) == IF lsq <= rsq THEN 0 ELSE 1 + Halvings(lsq, 4 * rsq)

RECURSIVE Pow2(_)
Pow2(k) == IF k = 0 THEN 1 ELSE 2 * Pow2(k - 1)

\* The number of the calls splits[n], splits[n + 1], ... of divide_edge that were made on
\* an edge of the set derived.  The n-th call appends vertex verts.len() + n - 1, and the
\* two halves of a split edge take its place in derived.
RECURSIVE SplitsAlong(_, _)
SplitsAlong(derived, n) ==
    IF n > Len(splits) THEN 0
    ELSE LET edge == splits[n]
             nv == Len(verts) + n - 1
         IN  IF edge \in derived
             THEN 1 + SplitsAlong((derived \ {edge})
                                      \cup {SortPair(edge[1], nv), SortPair(nv, edge[2])},
                                  n + 1)
             ELSE SplitsAlong(derived, n + 1)

\* the squared length of the input edge e
InputLenSq(e) == dist_sq(verts[e[1] + 1], verts[e[2] + 1])

\* C22 as claimed: for every edge of the input of length L > r, the number of splits
\* applied to that edge and to the sub-edges derived from it is at most ceil(log2(L / r)).
C22_SplitsAtMostLog ==
    (ctor = "PoissonDiskSurface" /\ ~HasOutOfRange) =>
        \A e \in InputEdges :
            InputLenSq(e) > r * r => SplitsAlong({e}, 1) <= Halvings(InputLenSq(e), r * r)

\* C22 as amended: for every edge of the input of length L > r, the number of splits
\* applied to that edge and to the sub-edges derived from it is at most
\* 2^ceil(log2(L / r)) - 1 (one split of the edge, two of its halves, four of its quarters,
\* ... down to the sub-edges that are at most r long).
C22_SplitsAtMostPow ==
    (ctor = "PoissonDiskSurface" /\ ~HasOutOfRange) =>
        \A e \in InputEdges :
            InputLenSq(e) > r * r
                => SplitsAlong({e}, 1) <= Pow2(Halvings(InputLenSq(e), r * r)) - 1

\* refinement has returned after 3 splits along an input edge that two halvings bring to r
C22_Witness ==
    /\ Refined
    /\ ~HasOutOfRange
    /\ \E e \in InputEdges :
           /\ Halvings(InputLenSq(e), r * r) = 2
           /\ SplitsAlong({e}, 1) = 3

(***************************************************************************)
(* Winding                                                                 *)
(***************************************************************************)
\* normal_dir of the triangle that from_points builds from the face
NormalDir(vs, face) == from_points(vs[face[1] + 1], vs[face[2] + 1], vs[face[3] + 1]).normal_dir

Dot(a, b) == a[1] * b[1] + a[2] * b[2] + a[3] * b[3]

\* C23: a split leaves the winding as it was: the face rewritten in place and the face
\* appended for it have their normals on the side of the normal of the face they were
\* split from.
C23_SplitKeepsWinding ==
    [][(SplitStep /\ Head(too_long_edges) \in DOMAIN edge_connections) =>
          LET tris == edge_connections[Head(too_long_edges)]
          IN  \A j \in 1..Len(tris) :
                  LET n0 == NormalDir(verticies, faces[tris[j] + 1])
                  IN  n0 # <<0, 0, 0>> =>
                          /\ Dot(n0, NormalDir(verticies', faces'[tris[j] + 1])) > 0
                          /\ Dot(n0, NormalDir(verticies', faces'[Len(faces) + j])) > 0]_vars

(***************************************************************************)
(* The cost of sample_naive                                                *)
(***************************************************************************)
NoRepeat(seq) == \A i, j \in 1..Len(seq) : seq[i] = seq[j] => i = j

\* C24: sample_naive ends after a bounded number of passes.  Every pass of the loop that
\* runs to its end increments exactly one of count and failures, so the candidates drawn
\* are as many as count + failures (and one more when a panic cut the last pass short);
\* with retries >= 1 and max >= 1 at most retries + max - 1 candidates are drawn; with
\* retries = 0 or max = 0 no candidate is drawn and the empty sequence is returned; and the
\* search for a conflict of any candidate tests no triangle twice.
C24_SampleNaiveBounded ==
    pc \in {"sampling", "done", "panic_sample"} =>
        /\ drawn = count + failures + (IF pc = "panic_sample" THEN 1 ELSE 0)
        /\ Len(accepted) = count
        /\ (retries >= 1 /\ max >= 1) => drawn <= retries + max - 1
        /\ (retries = 0 \/ max = 0) => (drawn = 0 /\ (pc = "done" => out = <<>>))
        /\ (pc = "sampling" /\ retries > failures /\ count < max)
               => \A t_root \in 0..(Len(triangles) - 1), d \in Draws :
                      NoRepeat(exists_point_within_sphere(
                                   Mesh, triangles, r,
                                   TriangleSample(triangles[t_root + 1], d[1], d[2]),
                                   t_root, tri_buckets).tested)

\* a call with retries = 2 and max = 2 has returned after 3 candidates, one accepted and
\* two rejected, on a mesh where the search of some candidate goes through 2 triangles
C24_Witness ==
    /\ pc = "done"
    /\ retries = 2
    /\ max = 2
    /\ drawn = 3
    /\ count = 1
    /\ failures = 2
    /\ Len(out) = 1
    /\ \E t_root \in 0..(Len(triangles) - 1), d \in Draws :
           Len(exists_point_within_sphere(
                   Mesh, triangles, r, TriangleSample(triangles[t_root + 1], d[1], d[2]),
                   t_root, tri_buckets).tested) >= 2

====
